---- MODULE Spec2Model ----
(***************************************************************************)
(* The session-timer engine of pomo.py: SettingsManager and                *)
(* SessionLogManager (pickled files written through a temporary file and   *)
(* shutil.move), and the PomodoroTimer state machine driven by Tk          *)
(* after() callbacks.                                                      *)
(***************************************************************************)
EXTENDS Integers, Sequences, FiniteSets, TLC

\* ------------------------------------------------------------------------
\* Bounds of the model
\* ------------------------------------------------------------------------
\* sessions that may be started in one behaviour
MaxSessions == 2
\* process starts after the first one
MaxRestarts == 1
\* faults of the environment (a read, a write or a move that raises, a kill)
MaxFaults == 1
\* the last calendar day a behaviour reaches (the first is day 1)
MaxDays == 2
\* pauses of pomoz.py's timer in one behaviour
MaxPauses == 2
\* worker threads that lister.py may start in one behaviour
MaxThreads == 2

\* ------------------------------------------------------------------------
\* Program constants
\* ------------------------------------------------------------------------
\* default of get_nested("settings", "pomodoro_minutes", 25)
DefaultPomodoroMinutes == 25
\* default of get_nested("settings", "break_minutes", 5)
DefaultBreakMinutes == 5
\* int(minutes) * 60
SecondsPerMinute == 60

VARIABLES
    \* --- environment ---
    fs,               \* the files: path -> content
    cross_fs,         \* the temp directory is on another filesystem than the app folder
    today,            \* the calendar day (index of time.strftime("%Y-%m-%d"))
    alive,            \* the process is running its mainloop
    \* --- SettingsManager / SessionLogManager ---
    settings_data,    \* SettingsManager.data
    session_log,      \* SessionLogManager.session_log
    \* --- PomodoroTimer ---
    POMODORO_DURATION,
    BREAK_DURATION,
    is_muted,
    pomodoro_done,
    time_left,
    is_running,
    current_session,
    timer_job,        \* self.timer_job: 0 is None, else an after() id
    pending,          \* the after() callbacks Tk still holds
    \* --- history (not program state) ---
    last,             \* the last event handled
    hist,             \* bookkeeping about the session in progress
    crash,            \* where the last process was killed inside a save
    budget,           \* what is left of MaxSessions / MaxRestarts
    io,               \* what the last handler did to the stores, logged and showed
    shadow,           \* the timer of a process given the same commands, all of
                      \* whose loads and saves fail
    \* --- the two other programs of the repository ---
    pomoz,            \* pomoz.py: SimplePomodoro, its Tk timers and its log file
    lister            \* lister.py: SimpleTaskUI's countdown, its worker threads
                      \* and TaskManager.pomodoro_stats

vars == << fs, cross_fs, today, alive, settings_data, session_log,
           POMODORO_DURATION, BREAK_DURATION, is_muted, pomodoro_done,
           time_left, is_running, current_session, timer_job, pending,
           last, hist, crash, budget, io, shadow, pomoz, lister >>

\* the variables of pomo.py's process and its environment
pomo_vars == << fs, cross_fs, today, alive, settings_data, session_log,
                POMODORO_DURATION, BREAK_DURATION, is_muted, pomodoro_done,
                time_left, is_running, current_session, timer_job, pending,
                last, hist, crash, budget, io, shadow >>

\* ------------------------------------------------------------------------
\* Files
\* ------------------------------------------------------------------------
SettingsPath == "pomosettings.pkl"
LogPath == "pomolog.pkl"
\* tf.name: the file NamedTemporaryFile creates for a save to `path`
TempName(path) == IF path = SettingsPath THEN "tmp-settings" ELSE "tmp-log"
Paths == {SettingsPath, LogPath, TempName(SettingsPath), TempName(LogPath)}

\* os.path.exists is false
Missing == [state |-> "missing"]
\* a file whose write did not finish
Truncated == [state |-> "partial"]
\* pickle.dump(obj, f) run to the end
Pickled(obj) == [state |-> "complete", obj |-> obj]

Exists(f, path) == f[path].state # "missing"
\* pickle.load succeeds
Loadable(f, path) == f[path].state = "complete"

\* ------------------------------------------------------------------------
\* SettingsManager.save / SessionLogManager.save
\* ------------------------------------------------------------------------
\* tempfile.NamedTemporaryFile("wb", delete=False) and pickle.dump into it:
\* the file is created in the temp directory, first empty, then whole.
WriteTempTrace(f, tmp, obj) ==
    << [f EXCEPT ![tmp] = Truncated],
       [f EXCEPT ![tmp] = Pickled(obj)] >>

\* (mutant) the temporary file is moved somewhere else than onto the target
MoveElsewhere(f, src, dst, xfs) == << [f EXCEPT ![src] = Missing] >>

\* shutil.move(tempname, filepath): os.rename when it can, else a copy onto
\* the target (opened for writing, so first cut to nothing) and an unlink.
MoveTrace(f, src, dst, xfs) ==
    IF ~xfs
    THEN << [f EXCEPT ![dst] = f[src], ![src] = Missing] >>
    ELSE << [f EXCEPT ![dst] = Truncated],
            [f EXCEPT ![dst] = f[src]],
            [f EXCEPT ![dst] = f[src], ![src] = Missing] >>

\* (mutant) the object is written straight onto the target, as open(path, "wb")
DirectSaveTrace(f, path, obj, xfs) ==
    << f, [f EXCEPT ![path] = Truncated], [f EXCEPT ![path] = Pickled(obj)] >>

\* the states of the files that one save passes through, the first being the
\* state before it and the last the state after a save that raised nothing
SaveTrace(f, path, obj, xfs) ==
    LET w == WriteTempTrace(f, TempName(path), obj)
    IN  << f >> \o w \o MoveTrace(w[Len(w)], TempName(path), path, xfs)

\* A temporary file that a save left behind is never opened again (each
\* NamedTemporaryFile has a name of its own): the files without it.
Forget(f) ==
    [p \in Paths |-> IF p \in {SettingsPath, LogPath} THEN f[p] ELSE Missing]

\* (mutant) save without its try/except: a step that fails raises to the caller
SaveRaising(f, path, obj, xfs, faults) ==
    LET t == SaveTrace(f, path, obj, xfs)
    IN  {[fs |-> t[Len(t)], faults |-> faults, ok |-> TRUE, raised |-> FALSE]}
        \cup (IF faults > 0
              THEN {[fs |-> Forget(t[i]), faults |-> faults - 1,
                     ok |-> FALSE, raised |-> TRUE] : i \in 1..(Len(t) - 1)}
              ELSE {})

\* (mutant) save hands the write to a worker and returns before it is done
SaveDeferred(f, path, obj, xfs, faults) ==
    {[fs |-> f, faults |-> faults, ok |-> TRUE, raised |-> FALSE]}

\* the files as save leaves them when it returns: the whole trace ran (ok), or
\* (one fault of the environment) a step raised and `except Exception` logged
\* it; either way nothing is raised to the caller and nothing is returned
SaveReturns(f, path, obj, xfs, faults) ==
    LET t == SaveTrace(f, path, obj, xfs)
    IN  {[fs |-> t[Len(t)], faults |-> faults, ok |-> TRUE, raised |-> FALSE]}
        \cup (IF faults > 0
              THEN {[fs |-> Forget(t[i]), faults |-> faults - 1,
                     ok |-> FALSE, raised |-> FALSE] : i \in 1..(Len(t) - 1)}
              ELSE {})

\* "ok" or "failed": how a save that returned went
SaveResult(r) == IF r.ok THEN "ok" ELSE "failed"

\* the files as a process killed inside save leaves them, with the step reached
SaveCrashes(f, path, obj, xfs) ==
    LET t == SaveTrace(f, path, obj, xfs)
    IN  {[fs |-> t[i], step |-> i] : i \in 1..Len(t)}

\* ------------------------------------------------------------------------
\* SettingsManager
\* ------------------------------------------------------------------------
\* {"date": "", "pomodoro": 0, "settings": {}}; the empty date string is day 0
DefaultSettings == [date |-> 0, pomodoro |-> 0, settings |-> [k \in {} |-> 0]]

\* SettingsManager._load_settings: what it may return, a read error being a
\* fault of the environment
\* how: "loaded", "missing" (os.path.exists is false) or "failed" (the except
\* branch, which logs the error)
LoadSettings(f, faults) ==
    (IF Exists(f, SettingsPath) /\ Loadable(f, SettingsPath)
     THEN {[data |-> f[SettingsPath].obj, faults |-> faults, how |-> "loaded"]}
     ELSE {[data |-> DefaultSettings, faults |-> faults,
            how |-> IF Exists(f, SettingsPath) THEN "failed" ELSE "missing"]})
    \cup (IF Loadable(f, SettingsPath) /\ faults > 0
          THEN {[data |-> DefaultSettings, faults |-> faults - 1, how |-> "failed"]}
          ELSE {})

\* SettingsManager.get_nested(dict_key, inner_key, default) on "settings"
get_nested(data, inner_key, default) ==
    IF inner_key \in DOMAIN data.settings THEN data.settings[inner_key] ELSE default

\* (mutant) the value is put into a dict that is not the stored one
SetNestedOnCopy(data, inner_key, value) == data

\* SettingsManager.set_nested(dict_key, inner_key, value) on "settings"
set_nested(data, inner_key, value) ==
    [data EXCEPT !.settings =
        [k \in (DOMAIN data.settings) \cup {inner_key} |->
            IF k = inner_key THEN value ELSE data.settings[k]]]

\* int(get_nested("settings", "pomodoro_minutes", 25)) * 60
PomodoroSeconds(data) ==
    get_nested(data, "pomodoro_minutes", DefaultPomodoroMinutes) * SecondsPerMinute

\* int(get_nested("settings", "break_minutes", 5)) * 60
BreakSeconds(data) ==
    get_nested(data, "break_minutes", DefaultBreakMinutes) * SecondsPerMinute

\* ------------------------------------------------------------------------
\* SessionLogManager
\* ------------------------------------------------------------------------
\* SessionLogManager._load_log
LoadLog(f, faults) ==
    (IF Exists(f, LogPath) /\ Loadable(f, LogPath)
     THEN {[log |-> f[LogPath].obj, faults |-> faults, how |-> "loaded"]}
     ELSE {[log |-> << >>, faults |-> faults,
            how |-> IF Exists(f, LogPath) THEN "failed" ELSE "missing"]})
    \cup (IF Loadable(f, LogPath) /\ faults > 0
          THEN {[log |-> << >>, faults |-> faults - 1, how |-> "failed"]}
          ELSE {})

\* (mutant) a load that opens the file for update and so creates a missing one
FilesAfterLoadCreating(f, path) ==
    IF Exists(f, path) THEN f ELSE [f EXCEPT ![path] = Truncated]

\* the files as _load_settings / _load_log leave them: open(path, "rb") and
\* pickle.load only read
FilesAfterLoad(f, path) == f

\* ------------------------------------------------------------------------
\* History kept beside the program state, to state the claims
\* ------------------------------------------------------------------------
\* fresh:      time_left was set to a full duration and no start came since
\* started_as: the configured duration of the session kind when it was started
\* paused:     the session in progress was paused at least once
\* decrements: the time_left -= 1 executed since the session was started
\* requested:  the work minutes asked for by a change-duration command
\*             issued while the timer was running (0: none)
\* reset_from: the state the last reset found (cleared by the next start)
\* done:       started_as, paused and decrements of the last completed session
NoDone == [started_as |-> 0, paused |-> FALSE, decrements |-> 0]
NoHist == [fresh |-> TRUE, started_as |-> 0, paused |-> FALSE, decrements |-> 0,
           requested |-> 0, done |-> NoDone, reset_from |-> << >>]

\* the history once time_left is set back to a full duration
FreshHist(h) == [NoHist EXCEPT !.requested = h.requested, !.done = h.done]
\* the history once the session in progress has completed
DoneHist(h) ==
    [NoHist EXCEPT !.requested = h.requested,
                   !.done = [started_as |-> h.started_as, paused |-> h.paused,
                             decrements |-> h.decrements]]

\* last: "startup", "complete", "reset", "close", "kill", "midnight" after such
\*       an event, "other" after any other handler
\* crash: the save a killed process was in: the target path, the object being
\*       saved, the files before the save and the step of SaveTrace reached
NoCrash == [path |-> "none"]

\* io: what the last handler did
\*   settings_save, log_save: "none" (no save), "ok" or "failed"
\*   settings_load, log_load: "none" (no load), "loaded", "missing" or "failed"
\*   logged: the records it handed to logging.error
\*   shown:  the message boxes it showed
\*   failed: the stores of which a save failed since the process started
\*   asked:  the texts typed, when the handler was the "Change duration" command
\*   cue:    what became of the beep, when the handler was a completion
NoIo == [settings_save |-> "none", log_save |-> "none",
         settings_load |-> "none", log_load |-> "none",
         logged |-> {}, shown |-> {}, failed |-> {}, asked |-> << >>,
         cue |-> "-"]

\* logging.error("Failed to save settings." / "Failed to save session log.")
SaveErrors(settings_save, log_save) ==
    (IF settings_save = "failed" THEN {"Failed to save settings."} ELSE {})
    \cup (IF log_save = "failed" THEN {"Failed to save session log."} ELSE {})

\* logging.error("Failed to load settings." / "Failed to load session log.")
LoadErrors(settings_load, log_load) ==
    (IF settings_load = "failed" THEN {"Failed to load settings."} ELSE {})
    \cup (IF log_load = "failed" THEN {"Failed to load session log."} ELSE {})

\* io after a handler whose saves went as given, `before` being the stores
\* with a failed save so far
IoAfter(settings_save, log_save, before) ==
    [NoIo EXCEPT !.settings_save = settings_save,
                 !.log_save = log_save,
                 !.logged = SaveErrors(settings_save, log_save),
                 !.failed = before
                            \cup (IF settings_save = "failed" THEN {SettingsPath} ELSE {})
                            \cup (IF log_save = "failed" THEN {LogPath} ELSE {})]

\* io after a handler that touched no store
Quiet == IoAfter("none", "none", io.failed)

\* ------------------------------------------------------------------------
\* Tk after() / after_cancel()
\* ------------------------------------------------------------------------
JobIds == 1..3
\* the id after() returns; Tk never hands out the id of a callback it holds
FreshJob(p) == CHOOSE j \in JobIds : j \notin p /\ \A k \in JobIds \ p : j <= k
\* (mutant) the callback is left with Tk
NoCancel(p, id) == p

\* after_cancel(id)
after_cancel(p, id) == p \ {id}

\* ------------------------------------------------------------------------
\* The timer with zero persistence
\* ------------------------------------------------------------------------
\* shadow is the timer state of a second process that is given the commands
\* and ticks of the modelled one, and whose every load and save fails: its
\* settings are {"date": today, "pomodoro": 0, "settings": {}} throughout.
\* It is followed only in the behaviours that start with shadow.on.
ZeroOff == [on |-> FALSE]

\* int(get_nested("settings", ..., 25 or 5)) * 60 on settings without minutes
ZeroDuration(kind) ==
    IF kind = "pomodoro" THEN DefaultPomodoroMinutes * SecondsPerMinute
    ELSE DefaultBreakMinutes * SecondsPerMinute

\* before the process starts; custom: the settings file of the modelled
\* process held other minutes than the defaults when it started
ZeroIdle ==
    [on |-> TRUE, custom |-> FALSE, is_running |-> FALSE,
     current_session |-> "pomodoro", time_left |-> 0, timer_job |-> 0, pending |-> {}]

\* _init_attributes, _load_settings and main's time_left, `f` the files found
ZeroStart(s, f) ==
    IF ~s.on THEN s
    ELSE [ZeroIdle EXCEPT
            !.time_left = ZeroDuration("pomodoro"),
            !.custom = /\ Loadable(f, SettingsPath)
                       /\ \/ PomodoroSeconds(f[SettingsPath].obj) # ZeroDuration("pomodoro")
                          \/ BreakSeconds(f[SettingsPath].obj) # ZeroDuration("break")]

\* the process is gone
ZeroGone(s) == IF ~s.on THEN s ELSE ZeroIdle

\* ------------------------------------------------------------------------
\* Initial states: the files a first run or an earlier run left behind
\* ------------------------------------------------------------------------
\* an earlier run of today with one finished work session, sound muted, and
\* the minutes edited in the settings file (pomo.py:251)
EditedSettings ==
    [date |-> 1, pomodoro |-> 1,
     settings |-> [k \in {"muted", "pomodoro_minutes", "break_minutes"} |->
                     IF k = "muted" THEN TRUE
                     ELSE IF k = "pomodoro_minutes" THEN 2 ELSE 1]]
EarlierLog ==
    << [timestamp |-> 1, session_type |-> "pomodoro", duration |-> 2 * SecondsPerMinute] >>

\* the files before the first run
FirstRunFiles == [p \in Paths |-> Missing]
\* the files after the earlier run
EarlierFiles ==
    [p \in Paths |-> IF p = SettingsPath THEN Pickled(EditedSettings)
                     ELSE IF p = LogPath THEN Pickled(EarlierLog)
                     ELSE Missing]

\* index in SaveTrace of "the temporary file is written, the move not begun"
TempWrittenStep == 1 + Len(WriteTempTrace(FirstRunFiles, TempName(LogPath), << >>))

\* pomoz.py, lister.py when the program is not run
PomozOff == [on |-> FALSE]
ListerOff == [on |-> FALSE]

\* the process not yet started, on files `files`, with `faults` faults to come
InitPomo(files, xfs, faults, restarts, sh) ==
    /\ fs = files
    /\ cross_fs \in xfs
    /\ today = 1
    /\ alive = FALSE
    /\ settings_data = DefaultSettings
    /\ session_log = << >>
    /\ POMODORO_DURATION = 0
    /\ BREAK_DURATION = 0
    /\ is_muted = FALSE
    /\ pomodoro_done = 0
    /\ time_left = 0
    /\ is_running = FALSE
    /\ current_session = "pomodoro"
    /\ timer_job = 0
    /\ pending = {}
    /\ last = "none"
    /\ hist = NoHist
    /\ crash = NoCrash
    /\ budget = [sessions |-> MaxSessions, starts |-> 1 + restarts, faults |-> faults]
    /\ io = NoIo
    /\ shadow = sh

\* pomo.py alone: pomoz.py and lister.py are not run
InitWith(files, xfs, faults, restarts, sh) ==
    /\ InitPomo(files, xfs, faults, restarts, sh)
    /\ pomoz = PomozOff
    /\ lister = ListerOff

\* one process in an environment where nothing fails: a first run (25 and 5
\* minutes), or a run on the files of an earlier one
Init ==
    \/ InitWith(FirstRunFiles, {FALSE}, 0, 0, ZeroOff)
    \/ InitWith(EarlierFiles, {FALSE}, 0, 0, ZeroOff)

\* processes one after the other on the files of an earlier run, in an
\* environment that may fail
InitStore == InitWith(EarlierFiles, BOOLEAN, MaxFaults, MaxRestarts, ZeroOff)

\* ------------------------------------------------------------------------
\* PomodoroTimer.__init__ and main()
\* ------------------------------------------------------------------------
\* (mutant) the date is renewed and the counter kept
DailyResetKeepsCount(data, day) ==
    IF data.date # day THEN [data EXCEPT !.date = day] ELSE data

\* PomodoroTimer._load_settings: the daily reset of the loaded settings
DailyReset(data, day) ==
    IF data.date # day THEN [data EXCEPT !.date = day, !.pomodoro = 0] ELSE data

\* The whole start of the process: _init_attributes (both loads),
\* _load_settings (daily reset and its save), main's time_left assignment.
StartProcess ==
    /\ ~alive
    /\ budget.starts > 0
    /\ \E ls \in LoadSettings(fs, budget.faults) :
       \E ll \in LoadLog(FilesAfterLoad(fs, SettingsPath), ls.faults) :
         LET f == Forget(FilesAfterLoad(FilesAfterLoad(fs, SettingsPath), LogPath))
             data == DailyReset(ls.data, today)
             reset == ls.data.date # today
             saves == IF reset
                      THEN SaveReturns(f, SettingsPath, data, cross_fs, ll.faults)
                      ELSE {[fs |-> f, faults |-> ll.faults, ok |-> TRUE, raised |-> FALSE]}
         IN  \E sv \in saves :
               /\ settings_data' = data
               /\ session_log' = ll.log
               /\ fs' = sv.fs
               /\ budget' = [budget EXCEPT !.starts = @ - 1, !.faults = sv.faults]
               /\ io' = LET a == IoAfter(IF reset THEN SaveResult(sv) ELSE "none", "none", {})
                        IN  [a EXCEPT !.settings_load = ls.how,
                                      !.log_load = ll.how,
                                      !.logged = LoadErrors(ls.how, ll.how) \cup a.logged]
               /\ is_muted' = get_nested(data, "muted", FALSE)
               /\ pomodoro_done' = data.pomodoro
               /\ POMODORO_DURATION' = PomodoroSeconds(data)
               /\ BREAK_DURATION' = BreakSeconds(data)
               /\ time_left' = PomodoroSeconds(data)
    /\ alive' = TRUE
    /\ is_running' = FALSE
    /\ current_session' = "pomodoro"
    /\ timer_job' = 0
    /\ pending' = {}
    /\ last' = "startup"
    /\ hist' = NoHist
    /\ crash' = NoCrash
    /\ shadow' = ZeroStart(shadow, fs)
    /\ UNCHANGED << cross_fs, pomoz, lister, today >>

\* ------------------------------------------------------------------------
\* PomodoroTimer: the session state machine
\* ------------------------------------------------------------------------
\* the configured duration of a session kind
ConfiguredDuration(kind, pomo, brk) == IF kind = "pomodoro" THEN pomo ELSE brk

\* (mutant) the entry is built after the kind was switched
SessionDataAfterSwitch(kind, pomo, brk, day) ==
    [timestamp |-> day, session_type |-> kind,
     duration |-> IF kind = "pomodoro" THEN brk ELSE pomo]

\* _end_session: session_data
SessionData(kind, pomo, brk, day) ==
    [timestamp |-> day, session_type |-> kind,
     duration |-> IF kind = "pomodoro" THEN pomo ELSE brk]

\* (mutant) every completed session is counted
DoneAfterAny(kind, done) == done + 1

\* _end_session: self.pomodoro_done += 1 for a pomodoro session only
DoneAfter(kind, done) == IF kind = "pomodoro" THEN done + 1 ELSE done

\* (mutant) the kind is not switched
StaySession(kind) == kind

\* _end_session: the session kind it switches to
NextSession(kind) == IF kind = "pomodoro" THEN "break" ELSE "pomodoro"

\* _timer_tick: self.time_left -= 1
Decrement(t) == t - 1

\* _end_session with zero persistence, Tk holding pend
ZeroEndSession(s, pend) ==
    [s EXCEPT !.is_running = FALSE,
              !.current_session = NextSession(s.current_session),
              !.time_left = ZeroDuration(NextSession(s.current_session)),
              !.pending = pend]

\* _schedule_tick with zero persistence (is_running is true)
ZeroScheduleTick(s, pend) ==
    IF s.time_left > 0
    THEN [s EXCEPT !.timer_job = FreshJob(pend), !.pending = pend \cup {FreshJob(pend)}]
    ELSE ZeroEndSession(s, pend)

\* _pause_resume with zero persistence
ZeroPauseResume(s) ==
    IF ~s.on THEN s
    ELSE IF s.is_running
    THEN [s EXCEPT !.is_running = FALSE,
                   !.pending = IF s.timer_job # 0
                               THEN after_cancel(s.pending, s.timer_job) ELSE s.pending,
                   !.timer_job = 0]
    ELSE ZeroScheduleTick([s EXCEPT !.is_running = TRUE], s.pending)

\* _timer_tick with zero persistence: the callback `job` fires, if Tk holds it
ZeroTimerTick(s, job) ==
    IF ~s.on \/ job \notin s.pending THEN s
    ELSE LET pend == s.pending \ {job}
         IN  IF s.is_running /\ s.time_left > 0
             THEN ZeroScheduleTick([s EXCEPT !.time_left = Decrement(s.time_left)], pend)
             ELSE IF s.is_running /\ s.time_left = 0
             THEN ZeroEndSession(s, pend)
             ELSE [s EXCEPT !.pending = pend]

\* _reset_timer with zero persistence
ZeroResetTimer(s) ==
    IF ~s.on THEN s
    ELSE [s EXCEPT !.pending = IF s.timer_job # 0
                               THEN after_cancel(s.pending, s.timer_job) ELSE s.pending,
                   !.timer_job = 0,
                   !.time_left = ZeroDuration("pomodoro"),
                   !.is_running = FALSE,
                   !.current_session = "pomodoro"]

\* (mutant) the beep is played by the caller itself, not in the executor's
\* thread: what winsound.Beep raises comes out of play_beep
PlayBeepInline(muted) ==
    IF muted
    THEN {[cue |-> "silent", raised |-> FALSE]}
    ELSE {[cue |-> "played", raised |-> FALSE],
          [cue |-> "unavailable", raised |-> FALSE],
          [cue |-> "failed", raised |-> TRUE]}

\* SoundPlayer.play_beep(muted): nothing when muted; else play_beep_real is
\* submitted to the executor, in whose thread winsound.Beep plays, or
\* winsound is not there (the NameError is caught and logged), or Beep raises
\* (the exception stays in the Future, which nobody reads)
PlayBeep(muted) ==
    IF muted
    THEN {[cue |-> "silent", raised |-> FALSE]}
    ELSE {[cue |-> c, raised |-> FALSE] : c \in {"played", "unavailable", "failed"}}

\* _end_session, whole: the beep is left to SoundPlayer; the entry is appended
\* and the log saved; for a pomodoro the counter is stored and the settings
\* saved; the kind is switched and time_left set from the settings.
\* pend: what Tk holds when it is called; h, b: history and budget so far.
EndSession(pend, h, b) ==
    LET kind == current_session
        log2 == Append(session_log,
                       SessionData(kind, POMODORO_DURATION, BREAK_DURATION, today))
        done2 == DoneAfter(kind, pomodoro_done)
        data2 == IF kind = "pomodoro"
                 THEN [settings_data EXCEPT !.pomodoro = done2]
                 ELSE settings_data
    IN  \E beep \in PlayBeep(is_muted) :
        IF beep.raised
        THEN \* an exception out of play_beep would leave _end_session there
             /\ is_running' = FALSE
             /\ pending' = pend
             /\ hist' = h
             /\ budget' = b
             /\ last' = "other"
             /\ io' = [Quiet EXCEPT !.cue = beep.cue]
             /\ UNCHANGED << fs, session_log, pomodoro_done, settings_data,
                             current_session, time_left, POMODORO_DURATION,
                             BREAK_DURATION, crash, cross_fs, pomoz, lister, today,
                             alive, is_muted, timer_job >>
        ELSE
        \E r1 \in SaveReturns(fs, LogPath, log2, cross_fs, b.faults) :
        \E r2 \in (IF kind = "pomodoro" /\ ~r1.raised
                   THEN SaveReturns(r1.fs, SettingsPath, data2, cross_fs, r1.faults)
                   ELSE {r1}) :
          /\ fs' = r2.fs
          /\ budget' = [b EXCEPT !.faults = r2.faults]
          /\ io' = [IoAfter(IF kind = "pomodoro" /\ ~r1.raised
                            THEN SaveResult(r2) ELSE "none",
                            SaveResult(r1), io.failed)
                    EXCEPT !.cue = beep.cue]
          /\ is_running' = FALSE
          /\ session_log' = log2
          /\ pending' = pend
          /\ IF r2.raised
             THEN \* an exception out of a save would leave _end_session there
                  /\ pomodoro_done' = (IF r1.raised THEN pomodoro_done ELSE done2)
                  /\ settings_data' = (IF r1.raised THEN settings_data ELSE data2)
                  /\ hist' = h
                  /\ last' = "other"
                  /\ UNCHANGED << current_session, time_left,
                                  POMODORO_DURATION, BREAK_DURATION >>
             ELSE /\ pomodoro_done' = done2
                  /\ settings_data' = data2
                  /\ current_session' = NextSession(kind)
                  /\ IF kind = "pomodoro"
                     THEN /\ BREAK_DURATION' = BreakSeconds(data2)
                          /\ time_left' = BreakSeconds(data2)
                          /\ UNCHANGED POMODORO_DURATION
                     ELSE /\ POMODORO_DURATION' = PomodoroSeconds(data2)
                          /\ time_left' = PomodoroSeconds(data2)
                          /\ UNCHANGED BREAK_DURATION
                  /\ hist' = DoneHist(h)
                  /\ last' = "complete"
          /\ UNCHANGED << crash, cross_fs, pomoz, lister, today, alive, is_muted, timer_job >>

\* (mutant) the job is remembered but Tk is not given the callback
ScheduleTickLost(t, pend, h, b, ev) ==
    IF t > 0
    THEN /\ timer_job' = FreshJob(pend)
         /\ pending' = pend
         /\ time_left' = t
         /\ is_running' = TRUE
         /\ hist' = h
         /\ budget' = b
         /\ last' = ev
         /\ io' = Quiet
         /\ UNCHANGED << crash, fs, cross_fs, pomoz, lister, today, alive,
                         settings_data, session_log, POMODORO_DURATION,
                         BREAK_DURATION, is_muted, pomodoro_done, current_session >>
    ELSE EndSession(pend, h, b)

\* (mutant) every scheduled tick saves the settings
ScheduleTickSaving(t, pend, h, b, ev) ==
    IF t > 0
    THEN /\ timer_job' = FreshJob(pend)
         /\ pending' = pend \cup {FreshJob(pend)}
         /\ time_left' = t
         /\ is_running' = TRUE
         /\ hist' = h
         /\ budget' = b
         /\ last' = ev
         /\ fs' = SaveTrace(fs, SettingsPath, settings_data, cross_fs)[
                      Len(SaveTrace(fs, SettingsPath, settings_data, cross_fs))]
         /\ io' = IoAfter("ok", "none", io.failed)
         /\ UNCHANGED << crash, cross_fs, pomoz, lister, today, alive, settings_data,
                         session_log, POMODORO_DURATION, BREAK_DURATION, is_muted,
                         pomodoro_done, current_session >>
    ELSE EndSession(pend, h, b)

\* _schedule_tick, called with is_running true and time_left = t
ScheduleTick(t, pend, h, b, ev) ==
    IF t > 0
    THEN /\ timer_job' = FreshJob(pend)
         /\ pending' = pend \cup {FreshJob(pend)}
         /\ time_left' = t
         /\ is_running' = TRUE
         /\ hist' = h
         /\ budget' = b
         /\ last' = ev
         /\ io' = Quiet
         /\ UNCHANGED << crash, fs, cross_fs, pomoz, lister, today, alive, settings_data, session_log,
                         POMODORO_DURATION, BREAK_DURATION, is_muted,
                         pomodoro_done, current_session >>
    ELSE EndSession(pend, h, b)

\* _pause_timer
PauseTimer ==
    /\ is_running' = FALSE
    /\ IF timer_job # 0
       THEN /\ pending' = after_cancel(pending, timer_job)
            /\ timer_job' = 0
       ELSE UNCHANGED << pending, timer_job >>
    /\ hist' = [hist EXCEPT !.paused = TRUE]
    /\ last' = "other"
    /\ io' = Quiet
    /\ UNCHANGED << crash, fs, cross_fs, pomoz, lister, today, alive, settings_data, session_log,
                    POMODORO_DURATION, BREAK_DURATION, is_muted, pomodoro_done,
                    time_left, current_session, budget >>

\* (mutant) the start counts one second down at once, as pomoz.py's
\* _start_timer does through _count_down
StartTimerCountingDown ==
    /\ hist.fresh => budget.sessions > 0
    /\ ScheduleTick(
         Decrement(time_left), pending,
         IF hist.fresh
         THEN [hist EXCEPT !.fresh = FALSE, !.reset_from = << >>,
                           !.decrements = @ + 1,
                           !.started_as = ConfiguredDuration(
                               current_session, POMODORO_DURATION, BREAK_DURATION)]
         ELSE [hist EXCEPT !.decrements = @ + 1],
         IF hist.fresh THEN [budget EXCEPT !.sessions = @ - 1] ELSE budget,
         "other")

\* _start_timer: a start of a session, or a resume of a paused one
StartTimer ==
    /\ hist.fresh => budget.sessions > 0
    /\ ScheduleTick(
         time_left, pending,
         IF hist.fresh
         THEN [hist EXCEPT !.fresh = FALSE, !.reset_from = << >>,
                           !.started_as = ConfiguredDuration(
                               current_session, POMODORO_DURATION, BREAK_DURATION)]
         ELSE hist,
         IF hist.fresh THEN [budget EXCEPT !.sessions = @ - 1] ELSE budget,
         "other")

\* _pause_resume: the Start/Pause button
PauseResume ==
    /\ alive
    /\ shadow' = ZeroPauseResume(shadow)
    /\ IF is_running THEN PauseTimer ELSE StartTimer

\* _timer_tick: the after() callback job fires
TimerTick ==
    \E job \in pending :
      /\ alive
      /\ shadow' = ZeroTimerTick(shadow, job)
      /\ LET pend == pending \ {job}
         IN  IF is_running /\ time_left > 0
             THEN ScheduleTick(Decrement(time_left), pend,
                               [hist EXCEPT !.decrements = @ + 1], budget, "other")
             ELSE IF is_running /\ time_left = 0
             THEN EndSession(pend, hist, budget)
             ELSE /\ pending' = pend
                  /\ last' = "other"
                  /\ io' = Quiet
                  /\ UNCHANGED << crash, fs, cross_fs, pomoz, lister, today, alive, settings_data,
                                  session_log, POMODORO_DURATION, BREAK_DURATION,
                                  is_muted, pomodoro_done, time_left, is_running,
                                  current_session, timer_job, hist, budget >>

\* _reset_timer: the reset button
ResetTimer ==
    /\ alive
    /\ IF timer_job # 0
       THEN /\ pending' = after_cancel(pending, timer_job)
            /\ timer_job' = 0
       ELSE UNCHANGED << pending, timer_job >>
    /\ POMODORO_DURATION' = PomodoroSeconds(settings_data)
    /\ BREAK_DURATION' = BreakSeconds(settings_data)
    /\ time_left' = PomodoroSeconds(settings_data)
    /\ is_running' = FALSE
    /\ current_session' = "pomodoro"
    /\ hist' = [FreshHist(hist) EXCEPT
                  !.reset_from = << IF is_running THEN "running"
                                    ELSE IF hist.fresh THEN "idle" ELSE "paused",
                                    current_session >>]
    /\ last' = "reset"
    /\ io' = Quiet
    /\ shadow' = ZeroResetTimer(shadow)
    /\ UNCHANGED << crash, fs, cross_fs, pomoz, lister, today, alive, settings_data, session_log,
                    is_muted, pomodoro_done, budget >>

\* _toggle_mute: the menu's first entry
ToggleMute ==
    /\ alive
    /\ LET data2 == set_nested(settings_data, "muted", ~is_muted)
       IN  /\ is_muted' = ~is_muted
           /\ settings_data' = data2
           /\ \E r \in SaveReturns(fs, SettingsPath, data2, cross_fs, budget.faults) :
                /\ fs' = r.fs
                /\ budget' = [budget EXCEPT !.faults = r.faults]
                /\ io' = IoAfter(SaveResult(r), "none", io.failed)
    /\ last' = "other"
    /\ UNCHANGED << crash, cross_fs, pomoz, lister, today, alive, session_log, POMODORO_DURATION,
                    BREAK_DURATION, pomodoro_done, time_left, is_running,
                    current_session, timer_job, pending, hist, shadow >>

\* ------------------------------------------------------------------------
\* The "Change duration" command
\* ------------------------------------------------------------------------
\* the texts a user may type into the dialog's entries
DurationInputs == {"30", "0", "abc"}

\* int(text): the number a decimal text stands for, or ValueError raised
int(text) ==
    CASE text = "0" -> [raised |-> FALSE, value |-> 0]
      [] text = "1" -> [raised |-> FALSE, value |-> 1]
      [] text = "30" -> [raised |-> FALSE, value |-> 30]
      [] OTHER -> [raised |-> TRUE]

\* the text is an integer of at least 1
ValidMinutes(text) == ~int(text).raised /\ int(text).value >= 1

\* (mutant) the dialog's save_and_close runs: max(1, int(text)) of both texts
\* is stored and saved, both durations set, time_left set only if the timer
\* is not running; a text that is no integer shows the error box instead
SaveAndClose(pomo, brk) ==
    IF int(pomo).raised \/ int(brk).raised
    THEN {[data |-> settings_data, fs |-> fs, faults |-> budget.faults,
           pomo_duration |-> POMODORO_DURATION, break_duration |-> BREAK_DURATION,
           time_left |-> time_left, save |-> "none",
           shown |-> {"Please enter valid numbers >= 1."}]}
    ELSE
    LET p2 == IF int(pomo).value > 1 THEN int(pomo).value ELSE 1
        b2 == IF int(brk).value > 1 THEN int(brk).value ELSE 1
        data2 == set_nested(set_nested(settings_data, "pomodoro_minutes", p2),
                            "break_minutes", b2)
    IN  {[data |-> data2, fs |-> r.fs, faults |-> r.faults,
          pomo_duration |-> p2 * SecondsPerMinute,
          break_duration |-> b2 * SecondsPerMinute,
          time_left |-> IF is_running THEN time_left
                        ELSE IF current_session = "pomodoro"
                        THEN p2 * SecondsPerMinute ELSE b2 * SecondsPerMinute,
          save |-> SaveResult(r),
          shown |-> {"Durations saved!"}] :
         r \in SaveReturns(fs, SettingsPath, data2, cross_fs, budget.faults)}

\* _open_duration_dialog: its first statement is `return`, so the command
\* leaves the settings, the files, the durations and time_left as they are
\* and shows nothing. The result is the set of outcomes of the command.
DurationDialog(pomo, brk) ==
    {[data |-> settings_data, fs |-> fs, faults |-> budget.faults,
      pomo_duration |-> POMODORO_DURATION, break_duration |-> BREAK_DURATION,
      time_left |-> time_left, save |-> "none", shown |-> {}]}

\* the menu's "Change duration" entry, the user meaning to type the texts
\* pomo and brk
OpenDurationDialog ==
    \E pomo \in DurationInputs, brk \in {"1"} :
    \E r \in DurationDialog(pomo, brk) :
      /\ alive
      /\ settings_data' = r.data
      /\ fs' = r.fs
      /\ budget' = [budget EXCEPT !.faults = r.faults]
      /\ POMODORO_DURATION' = r.pomo_duration
      /\ BREAK_DURATION' = r.break_duration
      /\ time_left' = r.time_left
      /\ hist' = IF is_running /\ ValidMinutes(pomo)
                 THEN [hist EXCEPT !.requested = int(pomo).value] ELSE hist
      /\ last' = "other"
      /\ io' = [IoAfter(r.save, "none", io.failed) EXCEPT
                  !.asked = << pomo, brk >>, !.shown = r.shown]
      /\ UNCHANGED << crash, cross_fs, pomoz, lister, today, alive, session_log, is_muted, pomodoro_done,
                      is_running, current_session, timer_job, pending, shadow >>

\* ------------------------------------------------------------------------
\* Days
\* ------------------------------------------------------------------------
\* midnight passes: time.strftime("%Y-%m-%d") gives the next day from now on
Midnight ==
    /\ today < MaxDays
    /\ today' = today + 1
    /\ last' = "midnight"
    /\ io' = Quiet
    /\ UNCHANGED << crash, fs, cross_fs, pomoz, lister, alive, settings_data, session_log,
                    POMODORO_DURATION, BREAK_DURATION, is_muted, pomodoro_done,
                    time_left, is_running, current_session, timer_job, pending,
                    hist, budget, shadow >>

\* ------------------------------------------------------------------------
\* The end of a process
\* ------------------------------------------------------------------------
\* the state of a process that is gone: only the files and the day remain
Gone(ev, c) ==
    /\ alive' = FALSE
    /\ settings_data' = DefaultSettings
    /\ session_log' = << >>
    /\ POMODORO_DURATION' = 0
    /\ BREAK_DURATION' = 0
    /\ is_muted' = FALSE
    /\ pomodoro_done' = 0
    /\ time_left' = 0
    /\ is_running' = FALSE
    /\ current_session' = "pomodoro"
    /\ timer_job' = 0
    /\ pending' = {}
    /\ hist' = NoHist
    /\ last' = ev
    /\ crash' = c
    /\ io' = NoIo
    /\ shadow' = ZeroGone(shadow)
    /\ UNCHANGED << cross_fs, pomoz, lister, today >>

\* the window position the geometry string gives
WindowPosition == << 0, 0 >>

\* _on_closing: the window position is stored and saved, the window destroyed
OnClosing ==
    /\ alive
    /\ budget.starts > 0
    /\ \E r \in SaveReturns(fs, SettingsPath,
                            set_nested(settings_data, "window_position", WindowPosition),
                            cross_fs, budget.faults) :
         /\ fs' = r.fs
         /\ budget' = [budget EXCEPT !.faults = r.faults]
    /\ Gone("close", NoCrash)

\* the process is killed (or the machine loses power) between two handlers
Kill ==
    /\ alive
    /\ budget.starts > 0
    /\ budget.faults > 0
    /\ budget' = [budget EXCEPT !.faults = @ - 1]
    /\ UNCHANGED fs
    /\ Gone("kill", NoCrash)

\* the process is killed inside the save of `obj` to `path` that starts on files f
KilledInSave(f, path, obj) ==
    \E k \in SaveCrashes(f, path, obj, cross_fs) :
      /\ fs' = k.fs
      /\ budget.faults > 0
      /\ budget' = [budget EXCEPT !.faults = @ - 1]
      /\ Gone("kill", [path |-> path, obj |-> obj, before |-> f, step |-> k.step])

\* the process is killed inside _toggle_mute's settings.save()
KillInToggleMute ==
    /\ alive
    /\ budget.starts > 0
    /\ KilledInSave(fs, SettingsPath, set_nested(settings_data, "muted", ~is_muted))

\* the process is killed inside _end_session: in session_log.append's save, or,
\* that save having returned, in settings.save()
KillInEndSession ==
    /\ alive
    /\ budget.starts > 0
    /\ is_running /\ pending # {} /\ time_left <= 1
    /\ LET kind == current_session
           log2 == Append(session_log,
                          SessionData(kind, POMODORO_DURATION, BREAK_DURATION, today))
           data2 == [settings_data EXCEPT !.pomodoro = DoneAfter(kind, pomodoro_done)]
       IN  \E inLog \in BOOLEAN :
             IF inLog
             THEN KilledInSave(fs, LogPath, log2)
             ELSE /\ kind = "pomodoro"
                  /\ \E r1 \in SaveReturns(fs, LogPath, log2, cross_fs, 0) :
                       KilledInSave(r1.fs, SettingsPath, data2)

\* ------------------------------------------------------------------------
\* The specifications
\* ------------------------------------------------------------------------
\* the handlers of a running process
Handlers ==
    \/ PauseResume
    \/ TimerTick
    \/ ResetTimer
    \/ ToggleMute
    \/ OpenDurationDialog

\* one process and every command of its user
Next ==
    \/ StartProcess
    \/ Handlers

Spec == Init /\ [][Next]_vars

\* processes that start, run, end or are killed, on files that outlive them;
\* their user starts sessions and lets them run, and mutes between sessions
NextStore ==
    \/ StartProcess
    \/ (~is_running /\ PauseResume)
    \/ TimerTick
    \/ (~is_running /\ ToggleMute)
    \/ OnClosing
    \/ Kill
    \/ KillInToggleMute
    \/ KillInEndSession

SpecStore == InitStore /\ [][NextStore]_vars

\* processes one after the other while the days pass, nothing failing; their
\* user starts sessions and lets them run
InitDays ==
    \/ InitWith(FirstRunFiles, {FALSE}, 0, MaxRestarts, ZeroOff)
    \/ InitWith(EarlierFiles, {FALSE}, 0, MaxRestarts, ZeroOff)

NextDays ==
    \/ StartProcess
    \/ (~is_running /\ PauseResume)
    \/ TimerTick
    \/ OnClosing
    \/ Midnight

SpecDays == InitDays /\ [][NextDays]_vars

\* the start of a process on whatever files it may find, in an environment
\* that may fail
FoundFiles ==
    {[p \in Paths |-> IF p = SettingsPath THEN a ELSE IF p = LogPath THEN b ELSE Missing] :
        a \in {Missing, Truncated, Pickled(EditedSettings)},
        b \in {Missing, Truncated, Pickled(EarlierLog)}}

InitLoad ==
    \E files \in FoundFiles : InitWith(files, BOOLEAN, MaxFaults, MaxRestarts, ZeroOff)

NextLoad ==
    \/ StartProcess
    \/ ToggleMute
    \/ OnClosing
    \/ Kill
    \/ KillInToggleMute

SpecLoad == InitLoad /\ [][NextLoad]_vars

\* one process in an environment that may fail, the commands of its user that
\* act on the timer or on a store, and beside it the timer with zero persistence
InitZero ==
    \/ InitWith(FirstRunFiles, {FALSE}, MaxFaults, 0, ZeroIdle)
    \/ InitWith(EarlierFiles, {FALSE}, MaxFaults, 0, ZeroIdle)

NextZero ==
    \/ StartProcess
    \/ PauseResume
    \/ TimerTick
    \/ ResetTimer
    \/ (~is_running /\ ToggleMute)

SpecZero == InitZero /\ [][NextZero]_vars

\* one process whose user only starts sessions (no pause, no reset), under
\* Tk's mainloop, which runs every after() callback once it is due
NextLive ==
    \/ StartProcess
    \/ ~is_running /\ PauseResume
    \/ TimerTick

SpecLive == Init /\ [][NextLive]_vars /\ WF_vars(TimerTick)

\* ------------------------------------------------------------------------
\* pomoz.py: SimplePomodoro
\* ------------------------------------------------------------------------
\* pomoz, while the program is run, is a record of
\*   alive, is_running, is_pomodoro, time_left, timer_id (0: None),
\*   session_log: SimplePomodoro's fields (session_log: day -> entries)
\*   pending: the after() callbacks Tk holds
\*   file:    the content of pomozlogs.json
\*   fired:   (history) the _count_down callbacks Tk ran while the timer was
\*            running, since time_left was last set to a full duration
\*   done:    (history) fired, and the duration_seconds logged, of the last
\*            session that finished
\*   stepped: (history) what the last step was: "none", "startup", "start",
\*            "pause", "tick", "finished", "reset" or "kill"
\*   wrote:   (history) the file before the last _write_session_log and the
\*            log it was given
\*   sessions, pauses, starts: what is left of MaxSessions, MaxPauses,
\*            MaxRestarts

\* SimplePomodoro.POMODORO_DURATION, SimplePomodoro.BREAK_DURATION
SimplePomodoroSeconds == DefaultPomodoroMinutes * SecondsPerMinute
SimpleBreakSeconds == DefaultBreakMinutes * SecondsPerMinute

\* _current_session_duration
SimpleSessionDuration(is_pomodoro) ==
    IF is_pomodoro THEN SimplePomodoroSeconds ELSE SimpleBreakSeconds

\* the empty dict
NoSessions == [d \in {} |-> << >>]

\* _load_session_log: the file's content, or {} when it is missing or does
\* not parse
SimpleLoadSessionLog(file) ==
    IF file.state = "complete" THEN file.obj ELSE NoSessions

\* _write_session_log: open(log_file, "w") empties the file, json.dump fills
\* it: the contents the file passes through, the first being the one before
SimpleWriteTrace(file, log) == << file, Truncated, Pickled(log) >>

\* _save_session: the entry of the session that finished, under today's key
SimpleSaveSession(log, is_pomodoro, day) ==
    LET entry == [timestamp |-> day,
                  session_type |-> IF is_pomodoro THEN "Pomodoro" ELSE "Break",
                  duration_seconds |-> SimpleSessionDuration(is_pomodoro)]
    IN  IF day \in DOMAIN log
        THEN [log EXCEPT ![day] = Append(@, entry)]
        ELSE [d \in DOMAIN log \cup {day} |->
                IF d = day THEN << entry >> ELSE log[d]]

\* _session_finished, with _save_session, _write_session_log and
\* _switch_session
SimpleSessionFinished(z, day) ==
    LET log2 == SimpleSaveSession(z.session_log, z.is_pomodoro, day)
        t == SimpleWriteTrace(z.file, log2)
    IN  [z EXCEPT !.is_running = FALSE,
                  !.timer_id = 0,
                  !.session_log = log2,
                  !.file = t[Len(t)],
                  !.wrote = [before |-> z.file, log |-> log2],
                  !.is_pomodoro = ~z.is_pomodoro,
                  !.time_left = SimpleSessionDuration(~z.is_pomodoro),
                  !.sessions = @ - 1,
                  !.done = [fired |-> z.fired,
                            duration_seconds |-> SimpleSessionDuration(z.is_pomodoro)],
                  !.fired = 0,
                  !.stepped = "finished"]

\* _count_down: called by _start_timer and by Tk, one second after the call
\* before
SimpleCountDown(z, day) ==
    IF z.is_running /\ z.time_left > 0
    THEN [z EXCEPT !.time_left = @ - 1,
                   !.timer_id = FreshJob(z.pending),
                   !.pending = @ \cup {FreshJob(z.pending)}]
    ELSE IF z.is_running /\ z.time_left = 0
    THEN SimpleSessionFinished(z, day)
    ELSE z

\* _start_timer
SimpleStartTimer(z, day) ==
    IF ~z.is_running
    THEN SimpleCountDown([z EXCEPT !.is_running = TRUE, !.stepped = "start"], day)
    ELSE z

\* _pause_timer
SimplePauseTimer(z) ==
    IF z.is_running
    THEN [z EXCEPT !.is_running = FALSE,
                   !.pending = IF z.timer_id # 0
                               THEN after_cancel(@, z.timer_id) ELSE @,
                   !.timer_id = 0,
                   !.stepped = "pause"]
    ELSE z

\* the program before it is run, on a log file `file`
SimpleNotStarted(file) ==
    [on |-> TRUE, alive |-> FALSE, is_running |-> FALSE, is_pomodoro |-> TRUE,
     time_left |-> 0, timer_id |-> 0, pending |-> {}, session_log |-> NoSessions,
     file |-> file, fired |-> 0, stepped |-> "none",
     done |-> [fired |-> 0, duration_seconds |-> 0],
     wrote |-> [before |-> file, log |-> NoSessions],
     sessions |-> MaxSessions, pauses |-> MaxPauses, starts |-> 1 + MaxRestarts]

\* the log that an earlier day's process left
SimpleEarlierLog ==
    SimpleSaveSession(NoSessions, TRUE, 0)

\* SimplePomodoro.__init__
SimpleStartProcess ==
    /\ pomoz.on /\ ~pomoz.alive /\ pomoz.starts > 0
    /\ pomoz' = [SimpleNotStarted(pomoz.file) EXCEPT
                   !.alive = TRUE,
                   !.time_left = SimplePomodoroSeconds,
                   !.session_log = SimpleLoadSessionLog(pomoz.file),
                   !.wrote = pomoz.wrote,
                   !.sessions = pomoz.sessions,
                   !.pauses = pomoz.pauses,
                   !.starts = pomoz.starts - 1,
                   !.stepped = "startup"]
    /\ UNCHANGED << pomo_vars, lister >>

\* _toggle_timer: the space key, a click on the circle
SimpleToggleTimer ==
    /\ pomoz.on /\ pomoz.alive
    /\ IF pomoz.is_running
       THEN /\ pomoz.pauses > 0
            /\ pomoz' = [SimplePauseTimer(pomoz) EXCEPT !.pauses = @ - 1]
       ELSE /\ pomoz.sessions > 0
            /\ pomoz' = SimpleStartTimer(pomoz, today)
    /\ UNCHANGED << pomo_vars, lister >>

\* Tk runs the after(1000, self._count_down) callback `job`
SimpleTick ==
    /\ pomoz.on /\ pomoz.alive
    /\ \E job \in pomoz.pending :
         pomoz' = SimpleCountDown(
                    [pomoz EXCEPT !.pending = @ \ {job},
                                  !.fired = IF pomoz.is_running THEN @ + 1 ELSE @,
                                  !.stepped = "tick"],
                    today)
    /\ UNCHANGED << pomo_vars, lister >>

\* _reset_timer: the r key, the menu
SimpleResetTimer ==
    /\ pomoz.on /\ pomoz.alive
    /\ pomoz' = [SimplePauseTimer(pomoz) EXCEPT
                   !.is_pomodoro = TRUE,
                   !.time_left = SimplePomodoroSeconds,
                   !.fired = 0,
                   !.stepped = "reset"]
    /\ UNCHANGED << pomo_vars, lister >>

\* the process is killed inside the _write_session_log of _session_finished
SimpleKillInWrite ==
    /\ pomoz.on /\ pomoz.alive
    /\ pomoz.is_running /\ pomoz.time_left = 0 /\ pomoz.pending # {}
    /\ LET log2 == SimpleSaveSession(pomoz.session_log, pomoz.is_pomodoro, today)
           t == SimpleWriteTrace(pomoz.file, log2)
       IN  \E i \in 1..Len(t) :
             pomoz' = [SimpleNotStarted(t[i]) EXCEPT
                         !.wrote = [before |-> pomoz.file, log |-> log2],
                         !.sessions = pomoz.sessions,
                         !.pauses = pomoz.pauses,
                         !.starts = pomoz.starts,
                         !.stepped = "kill"]
    /\ UNCHANGED << pomo_vars, lister >>

\* pomoz.py run on its log file, pomo.py and lister.py not run
InitPomoz ==
    /\ InitPomo(FirstRunFiles, {FALSE}, 0, 0, ZeroOff)
    /\ lister = ListerOff
    /\ pomoz \in {SimpleNotStarted(f) : f \in {Missing, Pickled(SimpleEarlierLog)}}

NextPomoz ==
    \/ SimpleStartProcess
    \/ SimpleToggleTimer
    \/ SimpleTick
    \/ SimpleResetTimer
    \/ SimpleKillInWrite

SpecPomoz == InitPomoz /\ [][NextPomoz]_vars

\* ------------------------------------------------------------------------
\* lister.py: SimpleTaskUI's pomodoro countdown
\* ------------------------------------------------------------------------
\* lister, while the program is run, is a record of
\*   pomodoro_running, pomodoro_time_left, pomodoro_phase ("none": None):
\*            SimpleTaskUI's fields
\*   threads: the worker threads started so far, each at a place of
\*            _pomodoro_thread:
\*              "test_time"     about to read pomodoro_time_left > 0
\*              "test_running"  about to read pomodoro_running (of the while)
\*              "sleep"         in time.sleep(1), about to read time_left
\*              "store"         about to write reg - 1 to pomodoro_time_left
\*              "exit"          after the loop, about to read pomodoro_running
\*              "done"          returned
\*            and the value reg it read for its -= 1
\*   posted:  the next_phase callbacks handed to root.after(0, ...), not yet run
\*   stats:   manager.pomodoro_stats of today
\*   saved:   pomodoro_stats of today in listerlogs.json
\*   zeroed:  (history) the phase in progress is a work phase whose time_left
\*            was counted down to 0 while it was running
\*   reached: (history) the work phases that were counted down to 0

\* POMODORO_WORK_MINUTES, POMODORO_BREAK_MINUTES
POMODORO_WORK_MINUTES == 25
POMODORO_BREAK_MINUTES == 5

\* the minutes start_timer is given for a phase
PhaseMinutes(phase) ==
    IF phase = "work" THEN POMODORO_WORK_MINUTES ELSE POMODORO_BREAK_MINUTES

\* SimpleTaskUI.__init__, no pomodoro counted today
ListerIdle ==
    [on |-> TRUE, pomodoro_running |-> FALSE, pomodoro_time_left |-> 0,
     pomodoro_phase |-> "none", threads |-> << >>, posted |-> 0,
     stats |-> 0, saved |-> 0, zeroed |-> FALSE, reached |-> 0]

\* the places of _pomodoro_thread from which the thread goes on to decrement
Decrementing == {"sleep", "store"}

\* the threads that are about to decrement pomodoro_time_left
Decrementers(l) ==
    {i \in 1..Len(l.threads) : l.threads[i].pc \in Decrementing}

\* start_timer: the three fields are set and a new thread is started
start_timer(l, phase, minutes) ==
    [l EXCEPT !.pomodoro_phase = phase,
              !.pomodoro_time_left = minutes * SecondsPerMinute,
              !.pomodoro_running = TRUE,
              !.zeroed = FALSE,
              !.threads = Append(@, [pc |-> "test_time", reg |-> 0])]

\* stop_pomodoro
stop_pomodoro(l) ==
    [l EXCEPT !.pomodoro_running = FALSE, !.pomodoro_phase = "none"]

\* TaskManager.increment_pomodoro_today
increment_pomodoro_today(stats) == stats + 1

\* one step of thread i in _pomodoro_thread
pomodoro_thread(l, i) ==
    LET th == l.threads[i]
        at(pc) == [l EXCEPT !.threads[i].pc = pc]
    IN  CASE th.pc = "test_time" ->
               IF l.pomodoro_time_left > 0 THEN at("test_running") ELSE at("exit")
          [] th.pc = "test_running" ->
               IF l.pomodoro_running THEN at("sleep") ELSE at("exit")
          [] th.pc = "sleep" ->
               [l EXCEPT !.threads[i] = [pc |-> "store", reg |-> l.pomodoro_time_left]]
          [] th.pc = "store" ->
               LET zero == /\ th.reg - 1 = 0 /\ ~l.zeroed
                           /\ l.pomodoro_running /\ l.pomodoro_phase = "work"
               IN  [l EXCEPT !.pomodoro_time_left = th.reg - 1,
                             !.threads[i] = [pc |-> "test_time", reg |-> 0],
                             !.zeroed = @ \/ zero,
                             !.reached = IF zero THEN @ + 1 ELSE @]
          [] th.pc = "exit" ->
               [l EXCEPT !.posted = IF l.pomodoro_running THEN @ + 1 ELSE @,
                         !.threads[i].pc = "done"]

\* Ctrl+P: start_pomodoro
ListerStartPomodoro ==
    /\ lister.on
    /\ ~lister.pomodoro_running
    /\ Len(lister.threads) < MaxThreads
    /\ lister' = start_timer(lister, "work", PhaseMinutes("work"))
    /\ UNCHANGED << pomo_vars, pomoz >>

\* Ctrl+S: stop_pomodoro
ListerStopPomodoro ==
    /\ lister.on
    /\ lister.pomodoro_running
    /\ lister' = stop_pomodoro(lister)
    /\ UNCHANGED << pomo_vars, pomoz >>

\* time.sleep(1) outlasts the few instructions between the read and the
\* write of another thread's -= 1: thread i does not wake while a thread
\* that has read is still to write and something was written since it read
MayWake(l, i) ==
    \A j \in 1..Len(l.threads) :
        (j # i /\ l.threads[j].pc = "store")
            => l.threads[j].reg = l.pomodoro_time_left

\* a worker thread takes a step
ListerThreadStep ==
    /\ lister.on
    /\ \E i \in 1..Len(lister.threads) :
         /\ lister.threads[i].pc # "done"
         /\ lister.threads[i].pc = "sleep" => MayWake(lister, i)
         /\ lister' = pomodoro_thread(lister, i)
    /\ UNCHANGED << pomo_vars, pomoz >>

\* Tk runs a posted next_phase; the user answers askyesno
next_phase ==
    /\ lister.on
    /\ lister.posted > 0
    /\ LET l == [lister EXCEPT !.posted = @ - 1]
       IN  IF l.pomodoro_phase = "work"
           THEN LET counted == [l EXCEPT
                                  !.stats = increment_pomodoro_today(@),
                                  !.saved = increment_pomodoro_today(l.stats)]
                IN  \E yes \in BOOLEAN :
                      IF yes
                      THEN /\ Len(l.threads) < MaxThreads
                           /\ lister' = start_timer(counted, "break",
                                                    PhaseMinutes("break"))
                      ELSE lister' = stop_pomodoro(counted)
           ELSE lister' = stop_pomodoro(l)
    /\ UNCHANGED << pomo_vars, pomoz >>

\* lister.py run, pomo.py and pomoz.py not run
InitLister ==
    /\ InitPomo(FirstRunFiles, {FALSE}, 0, 0, ZeroOff)
    /\ pomoz = PomozOff
    /\ lister = ListerIdle

NextLister ==
    \/ ListerStartPomodoro
    \/ ListerStopPomodoro
    \/ ListerThreadStep
    \/ next_phase

SpecLister == InitLister /\ [][NextLister]_vars

\* ------------------------------------------------------------------------
\* Claims
\* ------------------------------------------------------------------------
IsPrefix(a, b) == Len(a) <= Len(b) /\ SubSeq(b, 1, Len(a)) = a

\* C1: whatever commands and ticks came, time_left is at least 0 and at most
\* the configured duration of the current session kind.
C1_TimeLeftInRange ==
    alive =>
        /\ 0 <= time_left
        /\ time_left <= (IF current_session = "pomodoro"
                         THEN POMODORO_DURATION ELSE BREAK_DURATION)

\* a paused session, part of it counted down, after a change-duration command
C1_Witness ==
    /\ alive /\ ~is_running /\ hist.paused
    /\ hist.requested # 0
    /\ 0 < time_left /\ time_left < POMODORO_DURATION
    /\ current_session = "pomodoro"

\* C2: a session that runs to completion without a pause appends exactly one
\* entry, whose duration is the configured duration of its kind at its start.
C2_LogsStartDuration ==
    [][ (alive /\ last' = "complete" /\ ~hist.paused) =>
            /\ Len(session_log') = Len(session_log) + 1
            /\ IsPrefix(session_log, session_log')
            /\ session_log'[Len(session_log')].duration = hist.started_as
            /\ session_log'[Len(session_log')].session_type = current_session ]_vars

\* a session completed without a pause, a change of duration having been asked
\* for while it ran
C2_Witness ==
    /\ alive /\ last = "complete"
    /\ ~hist.done.paused
    /\ hist.requested # 0
    /\ session_log # << >>

\* C3: a completed pomodoro session adds exactly 1 to pomodoro_done and to the
\* settings' "pomodoro"; a completed break and every other handler leave both.
C3_CounterSteps ==
    [][ (alive /\ alive') =>
            IF last' = "complete" /\ current_session = "pomodoro"
            THEN /\ pomodoro_done' = pomodoro_done + 1
                 /\ settings_data'.pomodoro = pomodoro_done + 1
            ELSE /\ pomodoro_done' = pomodoro_done
                 /\ settings_data'.pomodoro = settings_data.pomodoro ]_vars

\* a break has completed after a pomodoro that was counted
C3_Witness ==
    /\ alive /\ last = "complete"
    /\ current_session = "pomodoro"
    /\ Len(session_log) >= 2
    /\ session_log[Len(session_log)].session_type = "break"
    /\ session_log[Len(session_log) - 1].session_type = "pomodoro"
    /\ pomodoro_done = settings_data.pomodoro
    /\ pomodoro_done >= 1

\* C4: a process killed at any point of a save leaves the target file holding
\* the whole old content or the whole new content.
C4_SaveIsAtomic ==
    crash.path # "none" =>
        \/ fs[crash.path] = crash.before[crash.path]
        \/ fs[crash.path] = Pickled(crash.obj)

\* C5: a process killed when the temporary file is written and the move not
\* begun leaves the target as it was, and a load gives what it gave before.
C5_KilledBeforeMove ==
    (crash.path # "none" /\ crash.step = TempWrittenStep) =>
        /\ fs[crash.path] = crash.before[crash.path]
        /\ IF crash.path = SettingsPath
           THEN LoadSettings(fs, 0) = LoadSettings(crash.before, 0)
           ELSE LoadLog(fs, 0) = LoadLog(crash.before, 0)

\* killed in the log's save, the temporary file whole, the log file holding
\* the entries of before
C5_Witness ==
    /\ ~alive
    /\ crash.path = LogPath
    /\ crash.step = TempWrittenStep
    /\ fs[TempName(LogPath)] = Pickled(crash.obj)
    /\ Loadable(fs, LogPath)
    /\ fs[LogPath].obj # crash.obj

\* C6: what the log file holds is only ever extended: the entries it held are
\* a prefix of the entries it holds after any later save.
C6_LogFileOnlyGrows ==
    [][ (Loadable(fs, LogPath) /\ Loadable(fs', LogPath)) =>
            IsPrefix(fs[LogPath].obj, fs'[LogPath].obj) ]_vars

\* C7: after a completion the timer is not running, Tk holds no tick, the kind
\* is the other one and time_left is the configured duration of the new kind;
\* with 25 and 5 minutes a completed pomodoro leaves a break of 300 seconds.
C7_AfterCompletion ==
    (alive /\ last = "complete") =>
        LET e == session_log[Len(session_log)]
        IN  /\ ~is_running
            /\ pending = {}
            /\ e.session_type = "pomodoro" => current_session = "break"
            /\ e.session_type = "break" => current_session = "pomodoro"
            /\ time_left = (IF current_session = "pomodoro"
                            THEN PomodoroSeconds(settings_data)
                            ELSE BreakSeconds(settings_data))
            /\ (e.session_type = "pomodoro" /\ DOMAIN settings_data.settings \subseteq {"muted"}) =>
                   /\ e.duration = 1500
                   /\ current_session = "break"
                   /\ time_left = 300

\* the scenario: 25 and 5 minutes, the first pomodoro of the day completed
C7_Witness ==
    /\ alive /\ last = "complete"
    /\ session_log = << [timestamp |-> today, session_type |-> "pomodoro", duration |-> 1500] >>
    /\ pomodoro_done = 1
    /\ current_session = "break"
    /\ time_left = 300
    /\ ~is_running

\* C8: a pause and a resume leave time_left and the kind as they are, and a
\* session completes after as many decrements as the duration configured at
\* its start, which is the duration its entry records.
C8_PauseResumeKeepCount ==
    [][ alive =>
          /\ (is_running /\ ~is_running' /\ last' = "other") =>
                 (time_left' = time_left /\ current_session' = current_session)
          /\ (~is_running /\ is_running' /\ ~hist.fresh) =>
                 (time_left' = time_left /\ current_session' = current_session)
          /\ last' = "complete" =>
                 /\ hist'.done.decrements = hist'.done.started_as
                 /\ session_log'[Len(session_log')].duration = hist'.done.started_as ]_vars

\* a 25-minute pomodoro that was paused and resumed has completed
C8_Witness ==
    /\ alive /\ last = "complete"
    /\ hist.done.paused
    /\ hist.done.decrements = 1500
    /\ session_log[Len(session_log)].duration = 1500

\* C9: once a change to some minutes was asked for while the timer ran, the
\* pomodoro that follows the next completion starts at that many minutes.
C9_RequestTakesEffect ==
    (alive /\ last = "complete" /\ current_session = "pomodoro" /\ hist.requested # 0) =>
        time_left = hist.requested * 60

\* C10: a reset leaves the timer not running, no tick with Tk, the kind
\* pomodoro, time_left the configured work duration, and changes neither the
\* log, nor the counter, nor the settings, nor the files.
C10_Reset ==
    [][ (alive /\ last' = "reset") =>
          /\ ~is_running'
          /\ pending' = {}
          /\ current_session' = "pomodoro"
          /\ time_left' = PomodoroSeconds(settings_data')
          /\ time_left' = POMODORO_DURATION'
          /\ session_log' = session_log
          /\ pomodoro_done' = pomodoro_done
          /\ settings_data' = settings_data
          /\ fs' = fs ]_vars

\* a reset that found a break running
C10_Witness ==
    /\ alive /\ last = "reset"
    /\ hist.reset_from = << "running", "break" >>
    /\ current_session = "pomodoro"
    /\ pending = {}

\* C11: a start on another day than the stored date leaves the counter 0 and
\* the stored date today, both in the settings file at once; a start on the
\* stored date changes neither and writes nothing.
C11_DailyReset ==
    [][ (~alive /\ alive') =>
          LET stored == IF Loadable(fs, SettingsPath)
                        THEN fs[SettingsPath].obj ELSE DefaultSettings
          IN  IF stored.date # today
              THEN /\ pomodoro_done' = 0
                   /\ settings_data'.pomodoro = 0
                   /\ settings_data'.date = today
                   /\ fs'[SettingsPath] = Pickled(settings_data')
              ELSE /\ pomodoro_done' = stored.pomodoro
                   /\ settings_data' = stored
                   /\ fs' = fs
                   /\ io'.settings_save = "none" ]_vars

\* a start on day 2 on the files of day 1, on which sessions were counted
C11_Witness ==
    /\ alive /\ last = "startup"
    /\ today = 2
    /\ Len(session_log) >= 1
    /\ session_log[1].timestamp = 1
    /\ pomodoro_done = 0
    /\ fs[SettingsPath] = Pickled(settings_data)
    /\ settings_data.date = 2

\* C12: after every completion the stored date is today and the stored counter
\* is the number of pomodoro sessions completed today, also when midnight
\* passed while the process ran.
C12_CounterIsTodays ==
    (alive /\ last = "complete") =>
        /\ settings_data.date = today
        /\ fs[SettingsPath].obj.date = today
        /\ settings_data.pomodoro =
               Cardinality({i \in DOMAIN session_log :
                              /\ session_log[i].session_type = "pomodoro"
                              /\ session_log[i].timestamp = today})

\* C13: a start on a settings or log file that is missing, unreadable or cut
\* short gets the default ({date "", pomodoro 0, settings {}}, here after the
\* daily reset; the empty log), raises nothing, and the loads leave the files
\* as they are.
C13_LoadsFailSoft ==
    [][ (~alive /\ budget.starts > 0 /\ budget'.starts < budget.starts) =>
          /\ alive'
          /\ ~Loadable(fs, SettingsPath) => io'.settings_load \in {"missing", "failed"}
          /\ ~Loadable(fs, LogPath) => io'.log_load \in {"missing", "failed"}
          /\ io'.settings_load \in {"missing", "failed"} =>
                 settings_data' = [date |-> today, pomodoro |-> 0, settings |-> [k \in {} |-> 0]]
          /\ io'.log_load \in {"missing", "failed"} => session_log' = << >>
          /\ fs'[LogPath] = fs[LogPath]
          /\ io'.settings_save = "none" => fs'[SettingsPath] = fs[SettingsPath] ]_vars

\* a start that found the settings file unreadable or cut short and no log file
C13_Witness ==
    /\ alive /\ last = "startup"
    /\ io.settings_load = "failed"
    /\ io.log_load = "missing"
    /\ DOMAIN settings_data.settings = {}
    /\ session_log = << >>
    /\ fs[LogPath] = Missing

\* C14: a handler whose save failed leaves its change in memory, and a save
\* that went well leaves the file holding the whole value in memory.
C14_FailedSaveKeepsChange ==
    [][ alive' =>
          /\ (io'.settings_save = "failed" \/ io'.log_save = "failed") =>
                /\ last' = "complete" =>
                      /\ Len(session_log') = Len(session_log) + 1
                      /\ IsPrefix(session_log, session_log')
                      /\ current_session = "pomodoro" =>
                             settings_data'.pomodoro = pomodoro_done + 1
                /\ (alive /\ last' = "other") =>
                      get_nested(settings_data', "muted", is_muted) = ~is_muted
                /\ last' = "startup" =>
                      (settings_data'.date = today /\ settings_data'.pomodoro = 0)
          /\ io'.settings_save = "ok" => fs'[SettingsPath] = Pickled(settings_data')
          /\ io'.log_save = "ok" => fs'[LogPath] = Pickled(session_log') ]_vars

\* the save of a mute toggle failed, and the save of the pomodoro completed
\* later went well: the file holds the counter and the toggle
C14_Witness ==
    /\ alive /\ last = "complete"
    /\ SettingsPath \in io.failed
    /\ io.settings_save = "ok"
    /\ fs[SettingsPath] = Pickled(settings_data)
    /\ get_nested(settings_data, "muted", TRUE) = FALSE
    /\ settings_data.pomodoro = 2

\* C15: a save that failed in a handler is shown to the user as a warning.
C15_SaveFailureIsShown ==
    (alive /\ (io.settings_save = "failed" \/ io.log_save = "failed")) =>
        io.shown # {}

\* the timer state a user sees, of the process and of the one with zero
\* persistence
TimerView ==
    [is_running |-> is_running, current_session |-> current_session,
     time_left |-> time_left, pending |-> pending]
ZeroView ==
    [is_running |-> shadow.is_running, current_session |-> shadow.current_session,
     time_left |-> shadow.time_left, pending |-> shadow.pending]

C18_SettingsSavedAtOnce ==
    (alive /\ SettingsPath \notin io.failed) =>
        /\ fs[SettingsPath] = Pickled(settings_data)
        /\ pomodoro_done = settings_data.pomodoro
        /\ is_muted = get_nested(settings_data, "muted", FALSE)

\* sound switched on again after a pomodoro was counted
C18_Witness ==
    /\ alive /\ last = "other"
    /\ io.settings_save = "ok"
    /\ ~is_muted
    /\ pomodoro_done = 2
    /\ fs[SettingsPath] = Pickled(settings_data)
    /\ fs[SettingsPath].obj.settings["muted"] = FALSE

\* C19: a change-duration command with valid minutes, given while the timer
\* is not running, sets both durations and time_left at once and leaves the
\* running flag and the kind.
C19_ChangeWhileNotRunning ==
    [][ (/\ alive /\ ~is_running
         /\ io'.asked # << >>
         /\ ValidMinutes(io'.asked[1]) /\ ValidMinutes(io'.asked[2])) =>
          /\ POMODORO_DURATION' = int(io'.asked[1]).value * 60
          /\ BREAK_DURATION' = int(io'.asked[2]).value * 60
          /\ time_left' = (IF current_session = "pomodoro"
                           THEN POMODORO_DURATION' ELSE BREAK_DURATION')
          /\ is_running' = is_running
          /\ current_session' = current_session ]_vars

C21_CueDoesNotMatter ==
    [][(alive /\ io'.cue # "-") =>
         /\ (is_muted <=> io'.cue = "silent")
         /\ last' = "complete"
         /\ ~is_running'
         /\ session_log' = Append(session_log,
                                  SessionData(current_session, POMODORO_DURATION,
                                              BREAK_DURATION, today))
         /\ pomodoro_done' = DoneAfter(current_session, pomodoro_done)
         /\ current_session' = NextSession(current_session)
         /\ time_left' = ConfiguredDuration(current_session', POMODORO_DURATION',
                                            BREAK_DURATION')]_vars

\* a pomodoro has completed while the beep failed during playback
C21_Witness ==
    /\ alive /\ last = "complete" /\ io.cue = "failed"
    /\ ~is_muted /\ current_session = "break" /\ pomodoro_done > 0

\* C22: Tk never holds more than one tick of the timer; while the timer is
\* not running (before a start, after a pause, a reset or a completion) it
\* holds none, and while it runs the one it holds is the job the timer
\* remembers: no tick scheduled by an earlier run is left to fire.
C22_OneTickPending ==
    /\ Cardinality(pending) <= 1
    /\ (~is_running => pending = {})
    /\ (is_running => pending = {timer_job})

\* a session paused after some ticks, then resumed and ticking again
C22_Witness ==
    /\ alive /\ is_running /\ hist.paused /\ hist.decrements > 1
    /\ pending = {timer_job}

\* a step of the timer that is a start or a resume, a pause, or a tick that
\* does not complete the session
TimerOnlyStep ==
    /\ alive /\ alive'
    /\ \/ ~is_running /\ is_running'
       \/ is_running /\ ~is_running' /\ last' = "other" /\ io'.cue = "-"
       \/ is_running /\ is_running' /\ time_left' = Decrement(time_left)

\* C28: a start, a pause, a resume and a tick that does not complete the
\* session write nothing: no save is made and the settings file and the log
\* file are as before; the files change only in a completion, a mute toggle,
\* the start of the process (daily reset) and the closing of the window.
C28_NoWriteOnTick ==
    [][/\ TimerOnlyStep =>
            /\ fs' = fs
            /\ io'.settings_save = "none" /\ io'.log_save = "none"
       /\ fs' # fs =>
            \/ last' \in {"complete", "startup", "close"}
            \/ is_muted' # is_muted]_vars

\* a tick that did not complete the session has fired in a session that was
\* paused and resumed, in a process that holds a log of earlier sessions
C28_Witness ==
    /\ alive /\ is_running /\ hist.paused /\ hist.decrements > 0
    /\ last = "other" /\ Len(session_log) > 0
    /\ io.settings_save = "none" /\ io.log_save = "none"

\* C29: a session that is running, when no pause and no reset is issued and
\* every scheduled tick fires, leads to its completion: the timer is not
\* running, the log is exactly one entry longer and the kind has flipped.
C29_SessionCompletes ==
    \A n \in 0 .. (Len(EarlierLog) + MaxSessions) :
    \A k \in {"pomodoro", "break"} :
        (alive /\ is_running /\ Len(session_log) = n /\ current_session = k)
        ~> (/\ alive /\ ~is_running /\ last = "complete"
            /\ Len(session_log) = n + 1
            /\ current_session = NextSession(k))

\* a session has run from its start to its completion without a pause, one
\* tick per second of its duration
C29_Witness ==
    /\ alive /\ ~is_running /\ last = "complete"
    /\ ~hist.done.paused
    /\ hist.done.decrements = hist.done.started_as
    /\ hist.done.started_as > 0

\* C30: the two writes of a completed pomodoro go together: when the process
\* is killed anywhere inside the completion, the files it leaves (those a
\* restart on the same day loads) hold the incremented counter exactly when
\* they hold the log with the session's entry.
C30_WritesTogether ==
    [][(/\ alive /\ ~alive' /\ last' = "kill"
        /\ is_running /\ time_left <= 1 /\ current_session = "pomodoro"
        /\ crash'.path # "none"
        /\ \/ crash'.path = LogPath
           \/ crash'.obj.pomodoro = DoneAfter(current_session, pomodoro_done))
       => LET entry == SessionData(current_session, POMODORO_DURATION,
                                   BREAK_DURATION, today)
              logged == /\ Loadable(fs', LogPath)
                        /\ fs'[LogPath].obj = Append(session_log, entry)
              counted == /\ Loadable(fs', SettingsPath)
                         /\ fs'[SettingsPath].obj.pomodoro
                              = DoneAfter(current_session, pomodoro_done)
          IN  logged <=> counted]_vars

\* C23: in pomoz.py a start or a resume leaves time_left as it is, and a
\* session that finishes has had as many _count_down callbacks run by Tk
\* while it was running as the duration_seconds of its log entry.
C23_OnlyTicksCountDown ==
    [][(pomoz.on /\ pomoz.alive /\ pomoz'.alive) =>
         /\ (~pomoz.is_running /\ pomoz'.is_running)
              => pomoz'.time_left = pomoz.time_left
         /\ (pomoz.is_running /\ pomoz'.stepped = "finished")
              => pomoz'.done.fired = pomoz'.done.duration_seconds]_vars

\* C24: a process of pomoz.py killed inside _write_session_log leaves in
\* pomozlogs.json the whole content it had before, or the whole new log.
C24_SimpleWriteIsAtomic ==
    (pomoz.on /\ pomoz.stepped = "kill") =>
        pomoz.file \in {pomoz.wrote.before, Pickled(pomoz.wrote.log)}

\* the states of lister.py in which no thread is left in its loop and no
\* next_phase is left to run
ListerQuiet ==
    /\ lister.on
    /\ lister.posted = 0
    /\ \A i \in 1..Len(lister.threads) : lister.threads[i].pc = "done"

\* C25: the countdown of lister.py never runs beside itself: whatever starts
\* and stops came, at most one worker thread is about to decrement
\* pomodoro_time_left.
C25_OneCountdown ==
    lister.on => Cardinality(Decrementers(lister)) <= 1

\* C26: today's count goes up by one for each work phase counted down to
\* zero and by nothing else: once the threads have returned and no
\* next_phase is left to run, it is the number of such work phases.
C26_CountsWorkPhases ==
    ListerQuiet => lister.stats = lister.reached

\* C27: while a phase is running, pomodoro_time_left is at least 0 and at
\* most the duration of that phase.
C27_TimeLeftInRange ==
    (lister.on /\ lister.pomodoro_running) =>
        /\ 0 <= lister.pomodoro_time_left
        /\ lister.pomodoro_time_left
             <= PhaseMinutes(lister.pomodoro_phase) * SecondsPerMinute

====
